---- MODULE Spec2Model ----
(***************************************************************************)
(* Model of the project import / windowed word-stream / persistence         *)
(* commands of src/tauri-nextjs-app/src-tauri/src/lib.rs.                   *)
(*                                                                         *)
(* Three specifications share one set of variables:                        *)
(*   SpecWords  import_file and load_word_buffer over text files;          *)
(*   Spec       the persistence commands, one whole command per step;      *)
(*   SpecConc   the persistence commands as tasks whose file-system calls  *)
(*              interleave (the commands are async fns without a lock).    *)
(***************************************************************************)
EXTENDS Integers, Sequences, FiniteSets, TLC

VARIABLES
    src_file,       \* the file at original_path: [exists, path, bytes]
    saved_file,     \* the copy under <app_data_dir>/files made by the latest import
    files_dir,      \* whether <app_data_dir>/files has been created
    projects_file,  \* <app_data_dir>/projects.json: [kind, data]
    sessions_file,  \* <app_data_dir>/sessions.json: [kind, data]
    meta,           \* the FileMetadata the latest successful import returned
    ret,            \* the latest completed command: its name, arguments and result
    hist,           \* history of the saves that returned Ok (not program state)
    task,           \* SpecConc: each in-flight command's position and locals
    issued,         \* SpecConc: number of commands dispatched so far
    stable          \* SpecConc: per document, the last collection written in full

vars == <<src_file, saved_file, files_dir, meta, projects_file, sessions_file, ret,
          hist, task, issued, stable>>

-----------------------------------------------------------------------------
(* Bounds of the model *)

MaxFileLen == 4
MaxStart == 2
MaxBuffer == 2
MaxWordIndex == 1
MaxCommands == 3
MaxImportLen == 2

-----------------------------------------------------------------------------
(* Text files.  A file is a sequence of symbols: letters, the blank, the   *)
(* line feed, and BAD, a byte that is not valid UTF-8.                      *)

LF == "\n"
BAD == "?"
Letters == {"a"}
Symbols == Letters \cup {" ", LF, BAD}

RECURSIVE SeqsUpTo(_, _)
SeqsUpTo(S, n) ==
    IF n = 0 THEN {<<>>}
    ELSE LET shorter == SeqsUpTo(S, n - 1)
         IN shorter \cup {Append(s, x) : s \in {t \in shorter : Len(t) = n - 1}, x \in S}

Texts == SeqsUpTo(Symbols, MaxFileLen)

\* A path is its sequence of components; the root "/" is the empty sequence.
SrcPath == <<"in", "doc.txt">>
GonePath == <<"in", "gone.txt">>
RootPath == <<>>
ParentPath == <<"in", "..">>
FilesDir == <<"app_data", "files">>

NoFile == [exists |-> FALSE, path |-> <<>>, bytes |-> <<>>]
FileOf(path, bytes) == [exists |-> TRUE, path |-> path, bytes |-> bytes]

\* mutant of file_name: a path without a last component has the empty name
file_name_or_empty(path) ==
    IF path = <<>> \/ path[Len(path)] = ".."
    THEN [some |-> TRUE, name |-> ""]
    ELSE [some |-> TRUE, name |-> path[Len(path)]]

\* Path::file_name: the last component, unless the path ends in "..", or is the root
file_name(path) ==
    IF path = <<>> \/ path[Len(path)] = ".."
    THEN [some |-> FALSE, name |-> ""]
    ELSE [some |-> TRUE, name |-> path[Len(path)]]

\* uuid::Uuid::new_v4() and chrono::Utc::now().to_rfc3339(), as the values a call may return
Uuids == {"u1", "u2"}
Times == {"T1", "T2"}

\* char::is_whitespace on the model's symbols (a line never holds LF)
IsWhitespace(c) == c = " " \/ c = LF

\* BufReader::lines(): the bytes up to each LF, the LF dropped; a last line
\* without LF is yielded when it is not empty.  A line holding BAD is the
\* Err item of the iterator, the others are Ok(line).
RECURSIVE LinesFrom(_, _, _)
LinesFrom(bytes, i, cur) ==
    IF i > Len(bytes)
    THEN IF cur = <<>> THEN <<>>
         ELSE <<[ok |-> \A k \in 1..Len(cur) : cur[k] # BAD, line |-> cur]>>
    ELSE IF bytes[i] = LF
         THEN <<[ok |-> \A k \in 1..Len(cur) : cur[k] # BAD, line |-> cur]>>
              \o LinesFrom(bytes, i + 1, <<>>)
         ELSE LinesFrom(bytes, i + 1, Append(cur, bytes[i]))

lines(bytes) == LinesFrom(bytes, 1, <<>>)

\* str::split_whitespace: the maximal runs of non-whitespace, in order
RECURSIVE SplitFrom(_, _, _)
SplitFrom(line, i, cur) ==
    IF i > Len(line)
    THEN IF cur = <<>> THEN <<>> ELSE <<cur>>
    ELSE IF IsWhitespace(line[i])
         THEN (IF cur = <<>> THEN <<>> ELSE <<cur>>) \o SplitFrom(line, i + 1, <<>>)
         ELSE SplitFrom(line, i + 1, Append(cur, line[i]))

split_whitespace(line) == SplitFrom(line, 1, <<>>)

-----------------------------------------------------------------------------
(* import_file's word count: lib.rs 116-122 *)

RECURSIVE CountFrom(_, _, _)
CountFrom(ls, i, word_count) ==
    IF i > Len(ls) THEN word_count
    ELSE IF ls[i].ok
         THEN CountFrom(ls, i + 1, word_count + Len(split_whitespace(ls[i].line)))
         ELSE CountFrom(ls, i + 1, word_count)

\* mutant of word_count_of: a line that does not decode is counted as one word
RECURSIVE CountLossy(_, _, _)
CountLossy(ls, i, word_count) ==
    IF i > Len(ls) THEN word_count
    ELSE CountLossy(ls, i + 1, word_count
                    + (IF ls[i].ok THEN Len(split_whitespace(ls[i].line)) ELSE 1))

word_count_lossy(bytes) == CountLossy(lines(bytes), 1, 0)

word_count_of(bytes) == CountFrom(lines(bytes), 1, 0)

-----------------------------------------------------------------------------
(* load_word_buffer's scan: lib.rs 141-160.  The scan state is the pair    *)
(* (words, current_index) of the code.                                     *)

\* mutants of Collects: the window starts one word late; the window holds
\* one word too many
CollectsLate(current_index, start_index, buffer_size, words) ==
    current_index > start_index /\ Len(words) < buffer_size

CollectsOneMore(current_index, start_index, buffer_size, words) ==
    current_index >= start_index /\ Len(words) <= buffer_size

\* lib.rs 147: whether the word at current_index is pushed
Collects(current_index, start_index, buffer_size, words) ==
    current_index >= start_index /\ Len(words) < buffer_size

\* lib.rs 152 and 156: the break test after a word and after a line
BufferFull(words, buffer_size) == Len(words) >= buffer_size

\* the inner loop over one line's words, from word j on
RECURSIVE ScanWords(_, _, _, _, _)
ScanWords(ws, j, start_index, buffer_size, st) ==
    IF j > Len(ws) THEN st
    ELSE LET pushed == IF Collects(st.current_index, start_index, buffer_size, st.words)
                       THEN Append(st.words, ws[j])
                       ELSE st.words
             st1 == [words |-> pushed, current_index |-> st.current_index + 1]
         IN IF BufferFull(pushed, buffer_size) THEN st1
            ELSE ScanWords(ws, j + 1, start_index, buffer_size, st1)

\* the outer loop over the lines, from line i on; an Err line is skipped
\* with no break test
RECURSIVE ScanLines(_, _, _, _, _)
ScanLines(ls, i, start_index, buffer_size, st) ==
    IF i > Len(ls) THEN st
    ELSE IF ls[i].ok
         THEN LET st1 == ScanWords(split_whitespace(ls[i].line), 1,
                                   start_index, buffer_size, st)
              IN IF BufferFull(st1.words, buffer_size) THEN st1
                 ELSE ScanLines(ls, i + 1, start_index, buffer_size, st1)
         ELSE ScanLines(ls, i + 1, start_index, buffer_size, st)

ScanFile(bytes, start_index, buffer_size) ==
    ScanLines(lines(bytes), 1, start_index, buffer_size,
              [words |-> <<>>, current_index |-> 0])

-----------------------------------------------------------------------------
(* The file system the text commands see *)

FileAt(path) ==
    IF path = SrcPath THEN src_file
    ELSE IF saved_file.exists /\ path = saved_file.path THEN saved_file
    ELSE NoFile

Ok(cmd, args, value) == [cmd |-> cmd, args |-> args, ok |-> TRUE, value |-> value]
Err(cmd, args, msg) == [cmd |-> cmd, args |-> args, ok |-> FALSE, value |-> msg]
NoRet == [cmd |-> "none", args |-> <<>>, ok |-> TRUE, value |-> <<>>]

StoreVars == <<projects_file, sessions_file>>
ConcVars == <<hist, task, issued, stable>>
TextVars == <<src_file, saved_file, files_dir, meta>>

-----------------------------------------------------------------------------
(* import_file: lib.rs 92-134 *)

NoMeta == [id |-> "", filename |-> "", saved_path |-> <<>>, total_words |-> 0,
           current_word_index |-> 0, created_at |-> ""]

FileMetadata(id, filename, saved_path, total_words, current_word_index, created_at) ==
    [id |-> id, filename |-> filename, saved_path |-> saved_path,
     total_words |-> total_words, current_word_index |-> current_word_index,
     created_at |-> created_at]

import_file(original_path, project_id, now) ==
    LET name == file_name(original_path)
        source == FileAt(original_path)
        saved_path == Append(FilesDir, <<project_id, "_", name.name>>)
    IN  /\ files_dir' = TRUE                                   \* create_dir_all, line 97
        /\ IF ~name.some
           THEN /\ ret' = Err("import_file", original_path, "Invalid file name")
                /\ UNCHANGED <<src_file, saved_file, meta>>
           ELSE IF ~source.exists
           THEN /\ ret' = Err("import_file", original_path, "copy failed")
                /\ UNCHANGED <<src_file, saved_file, meta>>
           ELSE /\ saved_file' = FileOf(saved_path, source.bytes)  \* fs::copy, line 111
                /\ meta' = FileMetadata(project_id, name.name, saved_path,
                                        word_count_of(saved_file'.bytes), 0, now)
                /\ ret' = Ok("import_file", original_path, meta')
                /\ UNCHANGED src_file
        /\ UNCHANGED <<StoreVars, ConcVars>>

-----------------------------------------------------------------------------
(* load_word_buffer: lib.rs 137-163.  The result keeps the running counter *)
(* current_index at the end of the scan next to the returned words.        *)

load_word_buffer(path, start_index, buffer_size) ==
    LET file == FileAt(path)
        args == [path |-> path, start_index |-> start_index, buffer_size |-> buffer_size]
    IN  /\ IF ~file.exists
           THEN ret' = Err("load_word_buffer", args, "open failed")
           ELSE LET st == ScanFile(file.bytes, start_index, buffer_size)
                IN ret' = Ok("load_word_buffer", args, st.words)
                           @@ [current_index |-> st.current_index]
        /\ UNCHANGED <<TextVars, StoreVars, ConcVars>>

-----------------------------------------------------------------------------
(* Backing documents.  A document is missing, or holds no byte (as after   *)
(* the truncating open of fs::write), or a JSON array (data), or text      *)
(* serde_json cannot parse, or bytes that are not UTF-8 text at all.       *)

NoDoc == [kind |-> "missing", data |-> <<>>]
Truncated == [kind |-> "empty", data |-> <<>>]
DocOf(data) == [kind |-> "json", data |-> data]
Malformed == [kind |-> "garbage", data |-> <<>>]
Undecodable == [kind |-> "binary", data |-> <<>>]

\* Path::exists
exists(doc) == doc.kind # "missing"

\* fs::read_to_string returns Err when the content is not valid UTF-8; the
\* handlers pass the error on with `?`: lib.rs 173, 203, 217, 254, 292, 310
ReadFails(doc) == doc.kind = "binary"

Tasks == {"t1", "t2"}
IdleTask == [pc |-> "idle"]

-----------------------------------------------------------------------------
(* The records of the two collections: lib.rs 20-64 *)

ProjectIds == {"p1", "p2"}
WordIndexes == 0..MaxWordIndex

\* ProjectSettings::default(), lib.rs 42-55; f64 fields are kept as their decimal text
DefaultSettings ==
    [time_per_word |-> "35.0", time_per_character |-> "25.0", highlight_orp |-> TRUE,
     letter_spacing |-> "3.5", punctuation_delay |-> "50.0", trail_words_count |-> 5,
     chunk_size |-> 1, skill_level |-> 1]

\* a settings value the UI may send: every field differs from the default
CustomSettings ==
    [time_per_word |-> "80.0", time_per_character |-> "10.0", highlight_orp |-> FALSE,
     letter_spacing |-> "1.0", punctuation_delay |-> "0.0", trail_words_count |-> 0,
     chunk_size |-> 3, skill_level |-> 2]

SettingsValues == {DefaultSettings, CustomSettings}

ProjectSession(session_id, project_id, current_word_index, last_read_date, settings) ==
    [session_id |-> session_id, project_id |-> project_id,
     current_word_index |-> current_word_index, last_read_date |-> last_read_date,
     settings |-> settings]

\* format!("{}_session", project_id), lib.rs 223
SessionIdOf(project_id) == <<project_id, "_session">>

\* the metadata values a caller passes to save_project_metadata
Metadatas ==
    {FileMetadata(id, "doc.txt", Append(FilesDir, <<id, "_", "doc.txt">>),
                  MaxWordIndex, i, "T1") : id \in ProjectIds, i \in {0, MaxWordIndex}}

FileMetadataFields == DOMAIN NoMeta
ProjectSessionFields ==
    {"session_id", "project_id", "current_word_index", "last_read_date", "settings"}

\* Option<T>
None == [some |-> FALSE, value |-> <<>>]
Some(v) == [some |-> TRUE, value |-> v]

-----------------------------------------------------------------------------
(* serde_json on a backing document *)

\* serde_json::to_string_pretty(&collection) written by fs::write
to_string_pretty(collection) == DocOf(collection)

\* mutant of from_str: the records that lack a field are skipped and the
\* others returned
from_str_lenient(doc, fields) ==
    IF doc.kind = "json"
    THEN [ok |-> TRUE,
          value |-> SelectSeq(doc.data, LAMBDA x : fields \subseteq DOMAIN x)]
    ELSE [ok |-> FALSE, value |-> <<>>]

\* serde_json::from_str::<Vec<T>>(&content): the array when the content is
\* JSON and every element has the fields of T
from_str(doc, fields) ==
    IF doc.kind = "json" /\ \A i \in 1..Len(doc.data) : fields \subseteq DOMAIN doc.data[i]
    THEN [ok |-> TRUE,
          value |-> [i \in 1..Len(doc.data) |-> [f \in fields |-> doc.data[i][f]]]]
    ELSE [ok |-> FALSE, value |-> <<>>]

\* Result::unwrap_or_default on a Vec
unwrap_or_default(r) == IF r.ok THEN r.value ELSE <<>>

\* mutant of LoadExisting: of an array that does not parse as a whole, the
\* records that have every field are kept
LoadExistingKeep(doc, fields) ==
    IF exists(doc) /\ doc.kind = "json"
    THEN SelectSeq(doc.data, LAMBDA x : fields \subseteq DOMAIN x)
    ELSE <<>>

\* "Load existing ...": lib.rs 172-177, 216-221, 253-258
LoadExisting(doc, fields) ==
    IF exists(doc) THEN unwrap_or_default(from_str(doc, fields)) ELSE <<>>

\* iter().find / iter_mut().find: the index of the first element with the key, or 0
FindProject(projects, id) ==
    IF \E i \in 1..Len(projects) : projects[i].id = id
    THEN CHOOSE i \in 1..Len(projects) :
            /\ projects[i].id = id
            /\ \A j \in 1..(i - 1) : projects[j].id # id
    ELSE 0

\* mutant of FindSession: the key is compared with session_id
FindSessionById(sessions, project_id) ==
    IF \E i \in 1..Len(sessions) : sessions[i].session_id = project_id
    THEN CHOOSE i \in 1..Len(sessions) : sessions[i].session_id = project_id
    ELSE 0

FindSession(sessions, project_id) ==
    IF \E i \in 1..Len(sessions) : sessions[i].project_id = project_id
    THEN CHOOSE i \in 1..Len(sessions) :
            /\ sessions[i].project_id = project_id
            /\ \A j \in 1..(i - 1) : sessions[j].project_id # project_id
    ELSE 0

\* mutants of UpsertProject: the record is always pushed; the matching
\* record is removed and the new one pushed at the end
UpsertProjectPush(projects, metadata) == Append(projects, metadata)

UpsertProjectMoveLast(projects, metadata) ==
    Append(SelectSeq(projects, LAMBDA q : q.id # metadata.id), metadata)

\* "Update or add project": lib.rs 179-184
UpsertProject(projects, metadata) ==
    LET i == FindProject(projects, metadata.id)
    IN IF i # 0 THEN [projects EXCEPT ![i] = metadata]
       ELSE Append(projects, metadata)

\* mutant of UpsertProgress: the save stamps last_read_date on every session
UpsertProgressTouchAll(sessions, project_id, word_index, now) ==
    LET i == FindSession(sessions, project_id)
        touched == [j \in 1..Len(sessions) |-> [sessions[j] EXCEPT !.last_read_date = now]]
    IN IF i # 0
       THEN [touched EXCEPT ![i].current_word_index = word_index]
       ELSE Append(touched, ProjectSession(SessionIdOf(project_id), project_id,
                                           word_index, now, DefaultSettings))

\* mutant of UpsertProgress: a missing session is not created
UpsertProgressNoCreate(sessions, project_id, word_index, now) ==
    LET i == FindSession(sessions, project_id)
    IN IF i # 0
       THEN [sessions EXCEPT ![i].current_word_index = word_index,
                             ![i].last_read_date = now]
       ELSE sessions

\* mutant of UpsertSettings: an existing session is replaced by a fresh one
UpsertSettingsReset(sessions, project_id, settings, now) ==
    LET i == FindSession(sessions, project_id)
        fresh == ProjectSession(SessionIdOf(project_id), project_id, 0, now, settings)
    IN IF i # 0 THEN [sessions EXCEPT ![i] = fresh] ELSE Append(sessions, fresh)

\* "Update or add session": lib.rs 225-237
UpsertProgress(sessions, project_id, word_index, now) ==
    LET i == FindSession(sessions, project_id)
    IN IF i # 0
       THEN [sessions EXCEPT ![i].current_word_index = word_index,
                             ![i].last_read_date = now]
       ELSE Append(sessions, ProjectSession(SessionIdOf(project_id), project_id,
                                            word_index, now, DefaultSettings))

\* "Update or add session with new settings": lib.rs 260-273
UpsertSettings(sessions, project_id, settings, now) ==
    LET i == FindSession(sessions, project_id)
    IN IF i # 0
       THEN [sessions EXCEPT ![i].settings = settings, ![i].last_read_date = now]
       ELSE Append(sessions, ProjectSession(SessionIdOf(project_id), project_id,
                                            0, now, settings))

-----------------------------------------------------------------------------
(* History kept for the claims: whether the latest command is a            *)
(* save_project_metadata that repeats the command before it, the ids       *)
(* saved into projects.json, and per project the index and the settings    *)
(* last saved, the documents whose unparseable content an upsert has       *)
(* replaced, the uuids new_v4 has returned, and the source file as it was  *)
(* when the latest import counted the words.                               *)

InitHist ==
    [repeated |-> FALSE,
     saved_ids |-> {},
     saved_index |-> [p \in ProjectIds |-> None],
     saved_settings |-> [p \in ProjectIds |-> None],
     discarded |-> {},
     uuids |-> {},
     indexed_source |-> NoFile]

SameCall(cmd, args) == ret.cmd = cmd /\ ret.ok /\ ret.args = args

-----------------------------------------------------------------------------
(* The persistence commands, each a whole handler: lib.rs 166-316 *)

\* exists + read_to_string + from_str.unwrap_or_default of an upsert found
\* a document it could not parse, whose content the write then replaces
Discards(doc, fields, d) == IF exists(doc) /\ ~from_str(doc, fields).ok THEN {d} ELSE {}

ReadError(cmd, args) ==
    /\ ret' = Err(cmd, args, "read failed")
    /\ hist' = [hist EXCEPT !.repeated = FALSE]
    /\ UNCHANGED <<StoreVars, TextVars, task, issued, stable>>

save_project_metadata(metadata) ==
    IF ReadFails(projects_file) THEN ReadError("save_project_metadata", metadata)
    ELSE
    LET projects == LoadExisting(projects_file, FileMetadataFields)
    IN  /\ projects_file' = to_string_pretty(UpsertProject(projects, metadata))
        /\ ret' = Ok("save_project_metadata", metadata, <<>>)
        /\ hist' = [hist EXCEPT !.repeated = SameCall("save_project_metadata", metadata),
                                !.saved_ids = @ \cup {metadata.id},
                                !.discarded = @ \cup Discards(projects_file,
                                                              FileMetadataFields, "projects")]
        /\ UNCHANGED <<sessions_file, TextVars, task, issued, stable>>

load_projects ==
    IF ReadFails(projects_file) THEN ReadError("load_projects", <<>>)
    ELSE
    /\ ret' = Ok("load_projects", <<>>,
                 IF ~exists(projects_file) THEN <<>>
                 ELSE unwrap_or_default(from_str(projects_file, FileMetadataFields)))
    /\ hist' = [hist EXCEPT !.repeated = FALSE]
    /\ UNCHANGED <<StoreVars, TextVars, task, issued, stable>>

save_session_progress(project_id, word_index, now) ==
    LET sessions == LoadExisting(sessions_file, ProjectSessionFields)
        args == [project_id |-> project_id, word_index |-> word_index]
    IN  IF ReadFails(sessions_file) THEN ReadError("save_session_progress", args)
        ELSE
        /\ sessions_file' =
               to_string_pretty(UpsertProgress(sessions, project_id, word_index, now))
        /\ ret' = Ok("save_session_progress", args, <<>>)
        /\ hist' = [hist EXCEPT !.repeated = FALSE,
                                !.saved_index[project_id] = Some(word_index),
                                !.discarded = @ \cup Discards(sessions_file,
                                                              ProjectSessionFields, "sessions")]
        /\ UNCHANGED <<projects_file, TextVars, task, issued, stable>>

save_project_settings(project_id, settings, now) ==
    LET sessions == LoadExisting(sessions_file, ProjectSessionFields)
        args == [project_id |-> project_id, settings |-> settings]
    IN  IF ReadFails(sessions_file) THEN ReadError("save_project_settings", args)
        ELSE
        /\ sessions_file' =
               to_string_pretty(UpsertSettings(sessions, project_id, settings, now))
        /\ ret' = Ok("save_project_settings", args, <<>>)
        /\ hist' = [hist EXCEPT !.repeated = FALSE,
                                !.saved_settings[project_id] = Some(settings),
                                !.discarded = @ \cup Discards(sessions_file,
                                                              ProjectSessionFields, "sessions")]
        /\ UNCHANGED <<projects_file, TextVars, task, issued, stable>>

\* mutant of LookupSession: a project without a session gets the field of a
\* default session instead of None
LookupSessionDefaulting(doc, project_id, field) ==
    LET sessions == LoadExisting(doc, ProjectSessionFields)
        i == FindSession(sessions, project_id)
        fresh == ProjectSession(SessionIdOf(project_id), project_id, 0, "T1", DefaultSettings)
    IN IF i = 0 THEN Some(fresh[field]) ELSE Some(sessions[i][field])

\* mutant of LookupSession: the field is read from the first session of the
\* collection, whichever project it belongs to
LookupSessionFirst(doc, project_id, field) ==
    IF ~exists(doc) THEN None
    ELSE LET sessions == unwrap_or_default(from_str(doc, ProjectSessionFields))
         IN IF FindSession(sessions, project_id) = 0 THEN None
            ELSE Some(sessions[1][field])

\* lib.rs 288-297 and 306-315: the field of the first session of the project
LookupSession(doc, project_id, field) ==
    IF ~exists(doc) THEN None
    ELSE LET sessions == unwrap_or_default(from_str(doc, ProjectSessionFields))
             i == FindSession(sessions, project_id)
         IN IF i = 0 THEN None ELSE Some(sessions[i][field])

load_project_settings(project_id) ==
    IF ReadFails(sessions_file) THEN ReadError("load_project_settings", project_id)
    ELSE
    /\ ret' = Ok("load_project_settings", project_id,
                 LookupSession(sessions_file, project_id, "settings"))
    /\ hist' = [hist EXCEPT !.repeated = FALSE]
    /\ UNCHANGED <<StoreVars, TextVars, task, issued, stable>>

load_session_progress(project_id) ==
    IF ReadFails(sessions_file) THEN ReadError("load_session_progress", project_id)
    ELSE
    /\ ret' = Ok("load_session_progress", project_id,
                 LookupSession(sessions_file, project_id, "current_word_index"))
    /\ hist' = [hist EXCEPT !.repeated = FALSE]
    /\ UNCHANGED <<StoreVars, TextVars, task, issued, stable>>

-----------------------------------------------------------------------------
(* Spec: the persistence commands run one after the other, from a data     *)
(* directory that holds neither document.                                  *)

Init ==
    /\ src_file = NoFile
    /\ saved_file = NoFile
    /\ files_dir = FALSE
    /\ meta = NoMeta
    /\ projects_file = NoDoc
    /\ sessions_file = NoDoc
    /\ ret = NoRet
    /\ hist = InitHist
    /\ task = [t \in Tasks |-> IdleTask]
    /\ issued = 0
    /\ stable = [d \in {"projects", "sessions"} |-> <<>>]

SaveProjectMetadata == \E metadata \in Metadatas : save_project_metadata(metadata)

LoadProjects == load_projects

SaveSessionProgress ==
    \E project_id \in ProjectIds, word_index \in WordIndexes, now \in Times :
        save_session_progress(project_id, word_index, now)

SaveProjectSettings ==
    \E project_id \in ProjectIds, settings \in SettingsValues, now \in Times :
        save_project_settings(project_id, settings, now)

LoadProjectSettings == \E project_id \in ProjectIds : load_project_settings(project_id)

LoadSessionProgress == \E project_id \in ProjectIds : load_session_progress(project_id)

Next ==
    \/ SaveProjectMetadata
    \/ LoadProjects
    \/ SaveSessionProgress
    \/ SaveProjectSettings
    \/ LoadProjectSettings
    \/ LoadSessionProgress

Spec == Init /\ [][Next]_vars

-----------------------------------------------------------------------------
(* SpecCorrupt: the same commands, one after the other, from a data        *)
(* directory whose documents cannot be used as they are: empty (a write    *)
(* that got no further than its truncating open), text that is not JSON,   *)
(* bytes that are not UTF-8, or a JSON array one of whose records lacks a  *)
(* field of the struct, next to a record that has them all.                *)

OldProjects ==
    DocOf(<<FileMetadata("p1", "doc.txt", Append(FilesDir, <<"p1", "_", "doc.txt">>),
                         MaxWordIndex, MaxWordIndex, "T1"),
            [id |-> "p2", filename |-> "doc.txt"]>>)

OldSessions ==
    DocOf(<<ProjectSession(SessionIdOf("p1"), "p1", MaxWordIndex, "T1", CustomSettings),
            [session_id |-> SessionIdOf("p2"), project_id |-> "p2",
             current_word_index |-> 0, last_read_date |-> "T1"]>>)

InitCorrupt ==
    /\ src_file = NoFile
    /\ saved_file = NoFile
    /\ files_dir = FALSE
    /\ meta = NoMeta
    /\ projects_file \in {Truncated, Malformed, Undecodable, OldProjects}
    /\ sessions_file \in {Truncated, Malformed, Undecodable, OldSessions}
    /\ ret = NoRet
    /\ hist = InitHist
    /\ task = [t \in Tasks |-> IdleTask]
    /\ issued = 0
    /\ stable = [d \in {"projects", "sessions"} |-> <<>>]

SpecCorrupt == InitCorrupt /\ [][Next]_vars

-----------------------------------------------------------------------------
(* SpecConc: the persistence commands as concurrent tasks.  Every command  *)
(* is an async fn the host runs as its own task (lib.rs 402-414), and no    *)
(* handler takes a lock, so the file-system calls of two commands          *)
(* interleave: exists + read_to_string (one read of the document),         *)
(* then fs::write, which opens the file truncating it and then writes.     *)

DocNames == {"projects", "sessions"}

DocNameOf(cmd) ==
    IF cmd \in {"save_project_metadata", "load_projects"} THEN "projects" ELSE "sessions"

DocAt(d) == IF d = "projects" THEN projects_file ELSE sessions_file

FieldsOf(d) == IF d = "projects" THEN FileMetadataFields ELSE ProjectSessionFields

IsLoad(cmd) == cmd \in {"load_projects", "load_project_settings", "load_session_progress"}

\* the commands the callers dispatch: name and arguments
ConcCommands ==
    {[cmd |-> "save_project_metadata", args |-> m] :
        m \in {x \in Metadatas : x.current_word_index = 0}}
    \cup {[cmd |-> "save_session_progress",
           args |-> [project_id |-> p, word_index |-> MaxWordIndex]] : p \in ProjectIds}
    \cup {[cmd |-> "save_project_settings",
           args |-> [project_id |-> p, settings |-> CustomSettings]] : p \in ProjectIds}
    \cup {[cmd |-> "load_projects", args |-> <<>>]}
    \cup {[cmd |-> c, args |-> p] :
            c \in {"load_project_settings", "load_session_progress"}, p \in ProjectIds}

\* the collection an upsert writes back, from the collection it read
Upserted(cmd, args, seen, now) ==
    IF cmd = "save_project_metadata" THEN UpsertProject(seen, args)
    ELSE IF cmd = "save_session_progress"
         THEN UpsertProgress(seen, args.project_id, args.word_index, now)
         ELSE UpsertSettings(seen, args.project_id, args.settings, now)

\* what a load returns, from the document it read
Loaded(cmd, args, doc) ==
    IF cmd = "load_projects"
    THEN (IF ~exists(doc) THEN <<>>
          ELSE unwrap_or_default(from_str(doc, FileMetadataFields)))
    ELSE IF cmd = "load_project_settings" THEN LookupSession(doc, args, "settings")
         ELSE LookupSession(doc, args, "current_word_index")

\* the tasks that have opened document d for writing and not yet written it
WritersOf(d, t) ==
    {u \in Tasks \ {t} : task[u].pc = "write" /\ DocNameOf(task[u].cmd) = d}

\* the host dispatches a command as a new task
Dispatch(t) ==
    /\ task[t].pc = "idle"
    /\ issued < MaxCommands
    /\ \E c \in ConcCommands : task' = [task EXCEPT ![t] = [pc |-> "read", cmd |-> c.cmd,
                                                           args |-> c.args]]
    /\ issued' = issued + 1
    /\ UNCHANGED <<StoreVars, TextVars, ret, hist, stable>>

\* a load reads its document and returns: lib.rs 199-206, 288-297, 306-315.
\* Kept with the result: the collection read, whether a writer had the
\* document open, and the collections before and after those writes.
LoadRead(t) ==
    /\ task[t].pc = "read" /\ IsLoad(task[t].cmd)
    /\ LET d == DocNameOf(task[t].cmd)
       IN ret' = Ok(task[t].cmd, task[t].args, Loaded(task[t].cmd, task[t].args, DocAt(d)))
                 @@ [seen |-> LoadExisting(DocAt(d), FieldsOf(d)),
                     overlap |-> WritersOf(d, t) # {},
                     allowed |-> {stable[d]} \cup {task[u].out : u \in WritersOf(d, t)}]
    /\ task' = [task EXCEPT ![t] = IdleTask]
    /\ UNCHANGED <<StoreVars, TextVars, hist, issued, stable>>

\* an upsert loads the collection and updates its copy: lib.rs 171-184,
\* 215-237, 252-273
UpsertRead(t) ==
    /\ task[t].pc = "read" /\ ~IsLoad(task[t].cmd)
    /\ \E now \in {"T1"} :
        LET d == DocNameOf(task[t].cmd)
            seen == LoadExisting(DocAt(d), FieldsOf(d))
        IN task' = [task EXCEPT ![t] =
                       [pc |-> "open", cmd |-> task[t].cmd, args |-> task[t].args,
                        seen |-> seen,
                        out |-> Upserted(task[t].cmd, task[t].args, seen, now),
                        overlap |-> WritersOf(d, t) # {},
                        allowed |-> {stable[d]} \cup {task[u].out : u \in WritersOf(d, t)}]]
    /\ UNCHANGED <<StoreVars, TextVars, ret, hist, issued, stable>>

\* fs::write, first half: the file is created or truncated (lib.rs 188, 241, 277)
UpsertOpen(t) ==
    /\ task[t].pc = "open"
    /\ IF DocNameOf(task[t].cmd) = "projects"
       THEN projects_file' = Truncated /\ UNCHANGED sessions_file
       ELSE sessions_file' = Truncated /\ UNCHANGED projects_file
    /\ task' = [task EXCEPT ![t].pc = "write"]
    /\ UNCHANGED <<TextVars, ret, hist, issued, stable>>

\* The bytes of the document after a task writes its JSON from offset 0 over
\* what the file holds: the JSON itself when the file is empty or holds the
\* same JSON; when another writer has put bytes there since the open, the
\* JSON followed by the tail of those bytes if they are longer.  An array
\* of more records is longer, arrays of as many records may be either.
WriteOutcomes(doc, out) ==
    IF doc.kind = "empty" \/ doc = DocOf(out) THEN {DocOf(out)}
    ELSE IF doc.kind = "json" /\ Len(doc.data) < Len(out) THEN {DocOf(out)}
    ELSE IF doc.kind = "json" /\ Len(doc.data) > Len(out) THEN {Malformed}
    ELSE {DocOf(out), Malformed}

\* fs::write, second half: the JSON is written and the command returns Ok
UpsertWrite(t) ==
    /\ task[t].pc = "write"
    /\ LET d == DocNameOf(task[t].cmd)
           cmd == task[t].cmd
           args == task[t].args
       IN  /\ \E doc \in WriteOutcomes(DocAt(d), task[t].out) :
                /\ IF d = "projects"
                   THEN projects_file' = doc /\ UNCHANGED sessions_file
                   ELSE sessions_file' = doc /\ UNCHANGED projects_file
                /\ stable' = [stable EXCEPT ![d] = LoadExisting(doc, FieldsOf(d))]
           /\ ret' = Ok(cmd, args, <<>>)
           /\ hist' = IF cmd = "save_project_metadata"
                      THEN [hist EXCEPT !.saved_ids = @ \cup {args.id}]
                      ELSE IF cmd = "save_session_progress"
                      THEN [hist EXCEPT !.saved_index[args.project_id] = Some(args.word_index)]
                      ELSE [hist EXCEPT !.saved_settings[args.project_id] = Some(args.settings)]
    /\ task' = [task EXCEPT ![t] = IdleTask]
    /\ UNCHANGED <<TextVars, issued>>

NextConc ==
    \E t \in Tasks :
        \/ Dispatch(t)
        \/ LoadRead(t)
        \/ UpsertRead(t)
        \/ UpsertOpen(t)
        \/ UpsertWrite(t)

SpecConc == Init /\ [][NextConc]_vars

-----------------------------------------------------------------------------
(* SpecWords: text files of every content up to MaxFileLen symbols, imported *)
(* and read back in windows.                                               *)

OriginalPaths == {SrcPath, GonePath, RootPath, ParentPath}
StartIndexes == 0..MaxStart
BufferSizes == 0..MaxBuffer

InitWords ==
    /\ src_file \in {FileOf(SrcPath, t) : t \in Texts}
    /\ saved_file = NoFile
    /\ files_dir = FALSE
    /\ meta = NoMeta
    /\ projects_file = NoDoc
    /\ sessions_file = NoDoc
    /\ ret = NoRet
    /\ hist = InitHist
    /\ task = [t \in Tasks |-> IdleTask]
    /\ issued = 0
    /\ stable = [d \in {"projects", "sessions"} |-> <<>>]

ImportFile ==
    \E original_path \in OriginalPaths, project_id \in Uuids, now \in Times :
        import_file(original_path, project_id, now)

\* the caller reads the saved_path of the metadata it holds, in windows of a
\* small size or of all total_words
LoadWordBuffer ==
    \E start_index \in StartIndexes, buffer_size \in BufferSizes \cup {meta.total_words} :
        /\ meta # NoMeta
        /\ load_word_buffer(meta.saved_path, start_index, buffer_size)

\* the caller reads a path no file is at: File::open fails before the
\* indexes are looked at
LoadWordBufferMissing ==
    \E start_index \in {0, MaxStart} : load_word_buffer(GonePath, start_index, MaxBuffer)

NextWords == ImportFile \/ LoadWordBuffer \/ LoadWordBufferMissing

SpecWords == InitWords /\ [][NextWords]_vars

-----------------------------------------------------------------------------
(* SpecImport: import_file in its two file-system phases, the copy         *)
(* (lib.rs 93-111) and the count over the copy (lib.rs 113-133), with the  *)
(* source file changed or deleted by its owner at any moment, also         *)
(* between the two; the caller registers the metadata it got with          *)
(* save_project_metadata, lists the projects and reads the whole text.     *)
(* The commands themselves run one after the other.                        *)

ImportTask == "t1"
ImportTexts == SeqsUpTo(Symbols, MaxImportLen)
Importing == task[ImportTask].pc = "index"

\* lib.rs 93-111: create_dir_all, file_name, new_v4, fs::copy
import_copy(original_path, project_id) ==
    LET name == file_name(original_path)
        source == FileAt(original_path)
        saved_path == Append(FilesDir, <<project_id, "_", name.name>>)
    IN  /\ files_dir' = TRUE
        /\ IF ~name.some
           THEN /\ ret' = Err("import_file", original_path, "Invalid file name")
                /\ hist' = [hist EXCEPT !.repeated = FALSE]
                /\ UNCHANGED <<saved_file, task>>
           ELSE /\ hist' = [hist EXCEPT !.repeated = FALSE, !.uuids = @ \cup {project_id}]
                /\ IF ~source.exists
                   THEN /\ ret' = Err("import_file", original_path, "copy failed")
                        /\ UNCHANGED <<saved_file, task>>
                   ELSE /\ saved_file' = FileOf(saved_path, source.bytes)
                        /\ task' = [task EXCEPT ![ImportTask] =
                                       [pc |-> "index", original_path |-> original_path,
                                        project_id |-> project_id, filename |-> name.name,
                                        saved_path |-> saved_path]]
                        /\ UNCHANGED ret
        /\ UNCHANGED <<src_file, meta, StoreVars, issued, stable>>

\* mutant of IndexedPath: the words are counted in the original file
IndexedPathOriginal(original_path, saved_path) == original_path

\* fs::File::open(&saved_path): lib.rs 114
IndexedPath(original_path, saved_path) == saved_path

\* mutant of import_index: the import also puts its metadata into projects.json
import_index_registers(now) ==
    LET t == task[ImportTask]
        file == FileAt(t.saved_path)
    IN  /\ meta' = FileMetadata(t.project_id, t.filename, t.saved_path,
                                word_count_of(file.bytes), 0, now)
        /\ ret' = Ok("import_file", t.original_path, meta')
        /\ projects_file' = to_string_pretty(
               UpsertProject(LoadExisting(projects_file, FileMetadataFields), meta'))
        /\ task' = [task EXCEPT ![ImportTask] = IdleTask]
        /\ hist' = [hist EXCEPT !.repeated = FALSE, !.indexed_source = src_file]
        /\ UNCHANGED <<src_file, saved_file, files_dir, sessions_file, issued, stable>>

\* lib.rs 113-133: the count over the opened file, the metadata, Ok(meta)
import_index(now) ==
    LET t == task[ImportTask]
        file == FileAt(IndexedPath(t.original_path, t.saved_path))
    IN  /\ IF ~file.exists
           THEN /\ ret' = Err("import_file", t.original_path, "open failed")
                /\ UNCHANGED meta
           ELSE /\ meta' = FileMetadata(t.project_id, t.filename, t.saved_path,
                                        word_count_of(file.bytes), 0, now)
                /\ ret' = Ok("import_file", t.original_path, meta')
        /\ task' = [task EXCEPT ![ImportTask] = IdleTask]
        /\ hist' = [hist EXCEPT !.repeated = FALSE, !.indexed_source = src_file]
        /\ UNCHANGED <<src_file, saved_file, files_dir, StoreVars, issued, stable>>

InitImport ==
    /\ src_file \in {FileOf(SrcPath, t) : t \in ImportTexts}
    /\ saved_file = NoFile
    /\ files_dir = FALSE
    /\ meta = NoMeta
    /\ projects_file = NoDoc
    /\ sessions_file = NoDoc
    /\ ret = NoRet
    /\ hist = InitHist
    /\ task = [t \in Tasks |-> IdleTask]
    /\ issued = 0
    /\ stable = [d \in {"projects", "sessions"} |-> <<>>]

\* a v4 uuid is one new_v4 has not returned before
ImportCopy ==
    /\ ~Importing
    /\ \E original_path \in OriginalPaths, project_id \in Uuids \ hist.uuids :
          import_copy(original_path, project_id)

ImportIndex == Importing /\ \E now \in Times : import_index(now)

\* the owner of the source file deletes it, or puts a word in front of its text
SourceChange ==
    /\ src_file.exists
    /\ Len(src_file.bytes) <= MaxImportLen
    /\ src_file' \in {NoFile, FileOf(SrcPath, <<"a", " ">> \o src_file.bytes)}
    /\ UNCHANGED <<saved_file, files_dir, meta, StoreVars, ret, ConcVars>>

RegisterImport == ~Importing /\ meta # NoMeta /\ save_project_metadata(meta)

ListProjects == ~Importing /\ load_projects

LoadWholeText ==
    ~Importing /\ meta # NoMeta /\ load_word_buffer(meta.saved_path, 0, meta.total_words)

NextImport ==
    \/ ImportCopy
    \/ ImportIndex
    \/ SourceChange
    \/ RegisterImport
    \/ ListProjects
    \/ LoadWholeText

SpecImport == InitImport /\ [][NextImport]_vars

-----------------------------------------------------------------------------
(* Claims about the word windows, checked under SpecWords *)

Min(x, y) == IF x <= y THEN x ELSE y
Max(x, y) == IF x >= y THEN x ELSE y

\* the whitespace tokenization of a file: every decodable line's words, in file order
RECURSIVE Concat(_, _)
Concat(ls, i) ==
    IF i > Len(ls) THEN <<>>
    ELSE (IF ls[i].ok THEN split_whitespace(ls[i].line) ELSE <<>>) \o Concat(ls, i + 1)

Tokenization(bytes) == Concat(lines(bytes), 1)

LoadedOk == ret.cmd = "load_word_buffer" /\ ret.ok
LoadedBytes == FileAt(ret.args.path).bytes

\* C1: load_word_buffer(path, start_index, buffer_size) on a file of T words
\* returns min(buffer_size, max(0, T - start_index)) words, the words at the
\* absolute indices start_index .. start_index + length - 1 in file order.
C1_WindowContents ==
    LoadedOk =>
        LET all == Tokenization(LoadedBytes)
            n == Min(ret.args.buffer_size, Max(0, Len(all) - ret.args.start_index))
        IN  /\ Len(ret.value) = n
            /\ \A i \in 1..n : ret.value[i] = all[ret.args.start_index + i]

\* a window cut short by the end of the file: load(path, 1, 2) on a two-word file
C1_Witness ==
    /\ LoadedOk
    /\ ret.args.start_index = 1 /\ ret.args.buffer_size = 2
    /\ Len(Tokenization(LoadedBytes)) = 2
    /\ Len(ret.value) = 1

\* C2: for 0 <= k <= T, load_word_buffer(r, 0, k) followed by
\* load_word_buffer(r, k, T - k) is the whole tokenization of r, in order.
C2_WindowsConcatenate ==
    LoadedOk =>
        LET all == Tokenization(LoadedBytes)
            k == ret.args.start_index
        IN  (k <= Len(all) /\ ret.args.buffer_size = Len(all) - k) =>
                ScanFile(LoadedBytes, 0, k).words \o ret.value = all

\* a boundary inside the file: both windows are non-empty
C2_Witness ==
    /\ LoadedOk
    /\ ret.args.start_index = 1
    /\ Len(Tokenization(LoadedBytes)) = 2
    /\ ret.args.buffer_size = 1
    /\ Len(ScanFile(LoadedBytes, 0, 1).words) = 1 /\ Len(ret.value) = 1

\* C3: the count import_file returned as total_words is the number of words
\* load_word_buffer(saved_path, 0, total_words) returns, whatever the file
\* holds (empty lines, blank lines, lines that do not decode).
C3_CountMatchesWindow ==
    (LoadedOk /\ ret.args.path = meta.saved_path /\ ret.args.start_index = 0
              /\ ret.args.buffer_size = meta.total_words)
        => Len(ret.value) = meta.total_words

\* a file with a line that does not decode, an empty line and a word
C3_Witness ==
    /\ LoadedOk /\ ret.args.path = meta.saved_path /\ ret.args.start_index = 0
    /\ ret.args.buffer_size = meta.total_words
    /\ meta.total_words = 1
    /\ \E i \in 1..Len(lines(LoadedBytes)) : ~lines(LoadedBytes)[i].ok
    /\ \E i \in 1..Len(lines(LoadedBytes)) : lines(LoadedBytes)[i].line = <<>>

-----------------------------------------------------------------------------
(* Claims about the persistence commands run one after the other (Spec) *)

Projects == LoadExisting(projects_file, FileMetadataFields)
Sessions == LoadExisting(sessions_file, ProjectSessionFields)
HasProject(projects, id) == \E i \in 1..Len(projects) : projects[i].id = id
HasSession(sessions, p) == \E i \in 1..Len(sessions) : sessions[i].project_id = p

\* C6: save_project_metadata with an id already in projects.json keeps the
\* length and the order and overwrites exactly the entry of that id with
\* the new value; with an absent id it appends the record.
C6_UpsertStep ==
    (ret'.cmd = "save_project_metadata" /\ ret'.ok) =>
        LET old == Projects
            new == projects_file'.data
            m == ret'.args
        IN  /\ projects_file'.kind = "json"
            /\ IF HasProject(old, m.id)
               THEN /\ Len(new) = Len(old)
                    /\ \A i \in 1..Len(old) :
                           new[i] = IF old[i].id = m.id THEN m ELSE old[i]
               ELSE new = Append(old, m)

C6_UpsertIdentity == [][C6_UpsertStep]_vars

\* the first of two entries has just been overwritten
C6_Witness ==
    /\ ret.cmd = "save_project_metadata"
    /\ Len(projects_file.data) = 2
    /\ projects_file.data[1] = ret.args
    /\ projects_file.data[2].id # ret.args.id

\* C7: a second save_project_metadata(m) right after the first leaves
\* projects.json as the first call left it.
C7_Idempotent ==
    [][(hist'.repeated /\ ret'.cmd = "save_project_metadata")
          => projects_file' = projects_file]_vars

\* the same metadata has been saved twice in a row into a two-entry collection
C7_Witness ==
    /\ hist.repeated /\ ret.cmd = "save_project_metadata"
    /\ Len(projects_file.data) = 2

\* C8: no two records of projects.json share an id and no two records of
\* sessions.json share a project_id.
C8_UniqueKeys ==
    /\ \A i, j \in 1..Len(projects_file.data) :
          projects_file.data[i].id = projects_file.data[j].id => i = j
    /\ \A i, j \in 1..Len(sessions_file.data) :
          sessions_file.data[i].project_id = sessions_file.data[j].project_id => i = j

\* both collections hold two records, each saved more than once
C8_Witness ==
    /\ Len(projects_file.data) = 2 /\ Len(sessions_file.data) = 2
    /\ projects_file.data[1].current_word_index = MaxWordIndex
    /\ sessions_file.data[1].current_word_index = MaxWordIndex
    /\ sessions_file.data[1].settings = CustomSettings

\* C9: a session created by a progress save has the default settings, and
\* load_project_settings returns them; a session created by a settings save
\* has index 0, and load_session_progress returns it.
C9_LazyDefaults ==
    /\ (ret.cmd = "load_project_settings" /\ hist.saved_index[ret.args].some
           /\ ~hist.saved_settings[ret.args].some)
          => ret.value = Some(DefaultSettings)
    /\ (ret.cmd = "load_session_progress" /\ hist.saved_settings[ret.args].some
           /\ ~hist.saved_index[ret.args].some)
          => ret.value = Some(0)

\* settings were loaded for a project that only ever had its progress
\* saved, while the other project only ever had its settings saved
C9_Witness ==
    /\ ret.cmd = "load_project_settings" /\ ret.value = Some(DefaultSettings)
    /\ hist.saved_index[ret.args] = Some(MaxWordIndex)
    /\ ~hist.saved_settings[ret.args].some
    /\ \E q \in ProjectIds :
          /\ hist.saved_settings[q] = Some(CustomSettings) /\ ~hist.saved_index[q].some
          /\ LookupSession(sessions_file, q, "current_word_index") = Some(0)

\* C10: on an existing session save_session_progress changes only
\* current_word_index and last_read_date, and save_project_settings only
\* settings and last_read_date; so the loads return the index and the
\* settings last saved for the project.
C10_FrameStep ==
    LET old == Sessions
        new == sessions_file'.data
    IN  /\ (ret'.cmd = "save_session_progress" /\ HasSession(old, ret'.args.project_id)) =>
              LET i == FindSession(old, ret'.args.project_id)
              IN  /\ Len(new) = Len(old)
                  /\ new[i] = [old[i] EXCEPT !.current_word_index = ret'.args.word_index,
                                              !.last_read_date = new[i].last_read_date]
        /\ (ret'.cmd = "save_project_settings" /\ HasSession(old, ret'.args.project_id)) =>
              LET i == FindSession(old, ret'.args.project_id)
              IN  /\ Len(new) = Len(old)
                  /\ new[i] = [old[i] EXCEPT !.settings = ret'.args.settings,
                                              !.last_read_date = new[i].last_read_date]

C10_LastSaved ==
    /\ (ret.cmd = "load_session_progress" /\ hist.saved_index[ret.args].some)
          => ret.value = hist.saved_index[ret.args]
    /\ (ret.cmd = "load_project_settings" /\ hist.saved_settings[ret.args].some)
          => ret.value = hist.saved_settings[ret.args]

C10_SavesIndependent == [][C10_FrameStep]_vars /\ []C10_LastSaved

\* the index was loaded after a progress save and a later settings save
C10_Witness ==
    /\ ret.cmd = "load_session_progress" /\ ret.value = Some(MaxWordIndex)
    /\ hist.saved_settings[ret.args] = Some(CustomSettings)
    /\ LookupSession(sessions_file, ret.args, "settings") = Some(CustomSettings)

-----------------------------------------------------------------------------
(* Claims about the persistence commands run as concurrent tasks (SpecConc) *)

Quiescent == \A t \in Tasks : task[t].pc = "idle"

\* C4: upserts to one document are serialized, so no completed upsert is
\* lost: once the commands have returned, projects.json holds every id
\* whose save returned Ok, and the session of every project holds the index
\* and the settings of the last save that returned Ok.
C4_NoLostUpsert ==
    Quiescent =>
        /\ \A id \in hist.saved_ids : HasProject(Projects, id)
        /\ \A p \in ProjectIds :
              /\ hist.saved_index[p].some =>
                    LookupSession(sessions_file, p, "current_word_index")
                        = hist.saved_index[p]
              /\ hist.saved_settings[p].some =>
                    LookupSession(sessions_file, p, "settings") = hist.saved_settings[p]

\* C5: a load, or the read of an upsert, that runs while another upsert has
\* the document open for writing sees the whole collection from before
\* that write or the whole collection after it.
C5_AtomicWrites ==
    /\ (IsLoad(ret.cmd) /\ "overlap" \in DOMAIN ret /\ ret.overlap)
          => ret.seen \in ret.allowed
    /\ \A t \in Tasks :
          (task[t].pc \in {"open", "write"} /\ task[t].overlap)
              => task[t].seen \in task[t].allowed


-----------------------------------------------------------------------------
(* Claims about what the loads return and what the commands leave alone,   *)
(* checked under Spec                                                      *)

\* C11: a load that directly follows a successful save returns what was
\* saved: load_session_progress(p) returns Some(w) after
\* save_session_progress(p, w), load_project_settings(p) returns Some(s)
\* after save_project_settings(p, s), and load_projects after
\* save_project_metadata(m) holds m, every field as saved, exactly once.
C11_RoundTripStep ==
    /\ (ret.cmd = "save_session_progress" /\ ret.ok
           /\ ret'.cmd = "load_session_progress" /\ ret'.args = ret.args.project_id)
          => (ret'.ok /\ ret'.value = Some(ret.args.word_index))
    /\ (ret.cmd = "save_project_settings" /\ ret.ok
           /\ ret'.cmd = "load_project_settings" /\ ret'.args = ret.args.project_id)
          => (ret'.ok /\ ret'.value = Some(ret.args.settings))
    /\ (ret.cmd = "save_project_metadata" /\ ret.ok /\ ret'.cmd = "load_projects")
          => /\ ret'.ok
             /\ Cardinality({i \in 1..Len(ret'.value) : ret'.value[i] = ret.args}) = 1
             /\ Cardinality({i \in 1..Len(ret'.value) :
                                 ret'.value[i].id = ret.args.id}) = 1

C11_RoundTrip == [][C11_RoundTripStep]_vars

\* the index of the second session of the collection was loaded, and it is
\* the one last saved for that project, not the index of the first session
C11_Witness ==
    /\ ret.cmd = "load_session_progress" /\ ret.ok
    /\ Len(sessions_file.data) = 2
    /\ sessions_file.data[2].project_id = ret.args
    /\ sessions_file.data[1].current_word_index = 0
    /\ hist.saved_index[ret.args] = Some(MaxWordIndex)
    /\ ret.value = Some(MaxWordIndex)


\* C12: a load of a missing document, or of a project that has no session,
\* is a success with the empty answer: load_projects returns the empty
\* sequence when projects.json is missing, load_session_progress and
\* load_project_settings return None when sessions.json is missing or holds
\* no session of the project; and no load creates or changes a document.
C12_MissingStep ==
    /\ (ret'.cmd = "load_projects" /\ ~exists(projects_file))
          => (ret'.ok /\ ret'.value = <<>>)
    /\ (ret'.cmd \in {"load_session_progress", "load_project_settings"}
           /\ (~exists(sessions_file) \/ ~HasSession(Sessions, ret'.args)))
          => (ret'.ok /\ ret'.value = None)
    /\ ret'.cmd \in {"load_projects", "load_session_progress", "load_project_settings"}
          => (projects_file' = projects_file /\ sessions_file' = sessions_file)

C12_MissingIsEmpty == [][C12_MissingStep]_vars

\* the settings of a project without a session were asked for while
\* sessions.json holds the session of the other project and projects.json
\* is still missing
C12_Witness ==
    /\ ret.cmd = "load_project_settings" /\ ret.ok /\ ret.value = None
    /\ Len(sessions_file.data) = 1
    /\ sessions_file.data[1].project_id # ret.args
    /\ ~exists(projects_file)


\* C16: for every project that has a record in projects.json and a session
\* in sessions.json, after a save_session_progress the current_word_index
\* of the project record equals the current_word_index of the session.
C16_CursorMirrored ==
    ret.cmd = "save_session_progress" =>
        \A p \in ProjectIds :
            (HasProject(Projects, p) /\ HasSession(Sessions, p)) =>
                Projects[FindProject(Projects, p)].current_word_index
                    = Sessions[FindSession(Sessions, p)].current_word_index


\* C20: run one after the other, save_session_progress(p, _) and
\* save_project_settings(p, _) succeed whether or not projects.json has a
\* record of p, leave projects.json as it is and leave the session of every
\* other project as it is, last_read_date included; save_project_metadata
\* leaves sessions.json as it is; and no command removes a project id or a
\* session that is stored.
KeysOf(records, key) == {records[i][key] : i \in 1..Len(records)}

C20_SessionSave == ret'.cmd \in {"save_session_progress", "save_project_settings"}

C20_FrameStep ==
    /\ C20_SessionSave =>
          /\ ret'.ok
          /\ projects_file' = projects_file
          /\ LET old == Sessions
                 new == LoadExisting(sessions_file', ProjectSessionFields)
                 i == FindSession(old, ret'.args.project_id)
             IN  IF i = 0 THEN Len(new) >= Len(old) /\ SubSeq(new, 1, Len(old)) = old
                 ELSE Len(new) = Len(old) /\ [new EXCEPT ![i] = old[i]] = old
    /\ ret'.cmd = "save_project_metadata" => sessions_file' = sessions_file
    /\ projects_file' # projects_file =>
          KeysOf(Projects, "id")
              \subseteq KeysOf(LoadExisting(projects_file', FileMetadataFields), "id")
    /\ sessions_file' # sessions_file =>
          KeysOf(Sessions, "project_id")
              \subseteq KeysOf(LoadExisting(sessions_file', ProjectSessionFields),
                               "project_id")

C20_OtherRecordsKept == [][C20_FrameStep]_vars

\* settings were saved at T2 for a project projects.json has no record of,
\* next to the session of the other project, which still carries T1
C20_Witness ==
    /\ ret.cmd = "save_project_settings" /\ ret.ok
    /\ ~HasProject(Projects, ret.args.project_id)
    /\ Len(Projects) = 1
    /\ Len(Sessions) = 2
    /\ Sessions[1].project_id # ret.args.project_id
    /\ Sessions[1].last_read_date = "T1"
    /\ Sessions[2].project_id = ret.args.project_id
    /\ Sessions[2].last_read_date = "T2"


-----------------------------------------------------------------------------
(* Claim about the scan, checked under SpecWords *)

\* C18: load_word_buffer stops as soon as buffer_size words are collected:
\* for every start_index and buffer_size, buffer_size = 0 included, the
\* running word counter at the end of the scan is at most
\* start_index + buffer_size.
C18_ScanBounded ==
    LoadedOk => ret.current_index <= ret.args.start_index + ret.args.buffer_size


-----------------------------------------------------------------------------
(* Claims about documents that cannot be parsed, checked under SpecCorrupt *)

\* a well-formed collection: a JSON array whose records have the fields
IsCollection(doc, fields) ==
    doc.kind = "json" /\ \A i \in 1..Len(doc.data) : fields \subseteq DOMAIN doc.data[i]

MalformedDoc(doc, fields) == exists(doc) /\ ~IsCollection(doc, fields)

\* C13 as stated: when projects.json or sessions.json exists but is
\* malformed, load_projects returns Ok(empty sequence),
\* load_session_progress and load_project_settings return Ok(None), and no
\* load returns an error.
C13_MalformedSwallowed ==
    /\ (ret.cmd = "load_projects" /\ MalformedDoc(projects_file, FileMetadataFields))
          => (ret.ok /\ ret.value = <<>>)
    /\ (ret.cmd \in {"load_session_progress", "load_project_settings"}
           /\ MalformedDoc(sessions_file, ProjectSessionFields))
          => (ret.ok /\ ret.value = None)

\* C13 (amended): when projects.json or sessions.json exists, is UTF-8
\* text, but does not parse as the collection, load_projects returns
\* Ok(empty sequence) and load_session_progress and load_project_settings
\* return Ok(None); a document that is not UTF-8 text makes the load
\* return the read error.
C13_ParseFailureSwallowed ==
    /\ (ret.cmd = "load_projects" /\ MalformedDoc(projects_file, FileMetadataFields))
          => IF projects_file.kind = "binary" THEN ~ret.ok
             ELSE ret.ok /\ ret.value = <<>>
    /\ (ret.cmd \in {"load_session_progress", "load_project_settings"}
           /\ MalformedDoc(sessions_file, ProjectSessionFields))
          => IF sessions_file.kind = "binary" THEN ~ret.ok
             ELSE ret.ok /\ ret.value = None

\* the progress of p1 was asked for while sessions.json is an array that
\* holds a complete session of p1 next to a record without settings
C13_Witness ==
    /\ ret.cmd = "load_session_progress" /\ ret.args = "p1"
    /\ ret.ok /\ ret.value = None
    /\ sessions_file = OldSessions


IsUpsert(cmd) ==
    cmd \in {"save_project_metadata", "save_session_progress", "save_project_settings"}

\* the step returned Ok and left, in the document of its command, the
\* collection of the one record the command upserts
C19_OneRecordLeft ==
    /\ ret'.ok
    /\ ret'.cmd = "save_project_metadata" => projects_file' = DocOf(<<ret'.args>>)
    /\ ret'.cmd = "save_session_progress" =>
          sessions_file' = DocOf(<<ProjectSession(SessionIdOf(ret'.args.project_id),
                                                  ret'.args.project_id,
                                                  ret'.args.word_index,
                                                  sessions_file'.data[1].last_read_date,
                                                  DefaultSettings)>>)
    /\ ret'.cmd = "save_project_settings" =>
          sessions_file' = DocOf(<<ProjectSession(SessionIdOf(ret'.args.project_id),
                                                  ret'.args.project_id,
                                                  0,
                                                  sessions_file'.data[1].last_read_date,
                                                  ret'.args.settings)>>)

C19_OnMalformed ==
    /\ IsUpsert(ret'.cmd)
    /\ MalformedDoc(DocAt(DocNameOf(ret'.cmd)), FieldsOf(DocNameOf(ret'.cmd)))

\* C19 as stated: an upsert against a document that exists but does not
\* parse returns Ok and leaves the document as the well-formed collection
\* of exactly the one upserted record.
C19_UpsertResets == [][C19_OnMalformed => C19_OneRecordLeft]_vars

\* C19 (amended): an upsert against a document that exists, is UTF-8 text,
\* but does not parse returns Ok and leaves the document as the well-formed
\* collection of exactly the one upserted record, every record stored
\* before being discarded; against a document that is not UTF-8 text the
\* upsert returns the read error and leaves both documents as they are.
C19_UpsertResetsText ==
    [][C19_OnMalformed =>
          IF DocAt(DocNameOf(ret'.cmd)).kind = "binary"
          THEN ~ret'.ok /\ projects_file' = projects_file
                        /\ sessions_file' = sessions_file
          ELSE C19_OneRecordLeft]_vars

\* the settings of p2 were saved into the array that held a complete
\* session of p1 next to a record without settings: the session of p2 is
\* all that is left
C19_Witness ==
    /\ ret.cmd = "save_project_settings" /\ ret.ok /\ ret.args.project_id = "p2"
    /\ hist.discarded = {"sessions"}
    /\ hist.saved_index = InitHist.saved_index
    /\ hist.saved_settings["p1"] = None
    /\ Len(sessions_file.data) = 1
    /\ sessions_file.data[1].project_id = "p2"
    /\ projects_file = OldProjects


-----------------------------------------------------------------------------
(* Claims about import_file, checked under SpecImport *)

\* a step of import_file: the copy, the count, or a return with an error
ImportStep == task' # task \/ (ret'.cmd = "import_file" /\ ret' # ret)

C14_Step ==
    /\ ImportStep => (projects_file' = projects_file /\ sessions_file' = sessions_file)
    /\ (ImportStep /\ ret'.cmd = "import_file" /\ ret'.ok /\ ret' # ret) =>
          /\ ret'.value.current_word_index = 0
          /\ ~HasProject(LoadExisting(projects_file', FileMetadataFields), ret'.value.id)

C14_Listing ==
    (ret.cmd = "load_projects" /\ ret.ok) =>
        \A i \in 1..Len(ret.value) :
            ret.value[i].id \in hist.uuids => ret.value[i].id \in hist.saved_ids

\* C14: import_file leaves projects.json and sessions.json as they are and
\* returns metadata whose current_word_index is 0; load_projects does not
\* list the returned id until save_project_metadata has been called with it.
C14_ImportDoesNotRegister == [][C14_Step]_vars /\ []C14_Listing

\* the projects were listed after a second import that was not registered:
\* the list holds the first import only
C14_Witness ==
    /\ ret.cmd = "load_projects" /\ ret.ok
    /\ Len(ret.value) = 1
    /\ meta # NoMeta
    /\ meta.id \notin hist.saved_ids
    /\ ret.value[1].id # meta.id
    /\ ret.value[1].id \in hist.uuids

\* C15: import_file of a path without a file name returns the
\* invalid-file-name error, copies no file into the private storage and
\* leaves both documents as they are.
C15_NoFileName ==
    [][(ret'.cmd = "import_file" /\ ret' # ret /\ ret'.args \in {RootPath, ParentPath})
          => /\ ~ret'.ok
             /\ ret'.value = "Invalid file name"
             /\ saved_file' = saved_file
             /\ projects_file' = projects_file
             /\ sessions_file' = sessions_file]_vars

\* the import of "in/.." was refused after an earlier import had been
\* copied and registered: the copy and the record are still there
C15_Witness ==
    /\ ret = Err("import_file", ParentPath, "Invalid file name")
    /\ saved_file.exists
    /\ saved_file.path = meta.saved_path
    /\ Len(Projects) = 1
    /\ Projects[1] = meta

\* C17: the metadata's total_words is the word count of the file at
\* saved_path as it was copied, whatever happened to the source after the
\* copy, and load_word_buffer(saved_path, 0, total_words) returns exactly
\* total_words words.
C17_CountsTheCopy ==
    ~Importing =>
        /\ (ret.cmd = "import_file" /\ ret.ok) =>
              /\ saved_file.exists /\ saved_file.path = ret.value.saved_path
              /\ ret.value.total_words = Len(Tokenization(saved_file.bytes))
        /\ (LoadedOk /\ ret.args.path = meta.saved_path /\ ret.args.start_index = 0
               /\ ret.args.buffer_size = meta.total_words) =>
              /\ Len(ret.value) = meta.total_words
              /\ ret.value = Tokenization(saved_file.bytes)

\* the whole text of an import was read, and when that import counted the
\* words the source file already held a different number of words than
\* the copy
C17_Witness ==
    /\ ~Importing /\ LoadedOk
    /\ ret.args.path = meta.saved_path
    /\ meta.total_words >= 1
    /\ Len(ret.value) = meta.total_words
    /\ hist.indexed_source.exists
    /\ word_count_of(hist.indexed_source.bytes) # meta.total_words

====
